---- MODULE Spec2Model ----
(***************************************************************************)
(* A model of the three exercise programs of the repository:               *)
(*   programs/guessing_game      the number-guessing loop                  *)
(*   programs/Structs-Rectangle  the interactive rectangle-area calculator *)
(*   notes/01-Basics/variables   the variable-semantics demonstration      *)
(*                                                                         *)
(* u32 values do not fit TLC's integers, so a u32 is a pair <<hi, lo>> of  *)
(* 16-bit limbs.  Text is a sequence of one-character strings.             *)
(***************************************************************************)
EXTENDS Integers, Sequences, FiniteSets, TLC

VARIABLES
    program,      \* which of the three binaries is running
    pc,           \* control position inside that binary
    stdin_eof,    \* the standard input stream has reached end-of-stream
    reads,        \* number of read_line calls made so far
    lines_in,     \* history: what each read_line call put in the buffer
    input,        \* the String buffer filled by read_line
    out,          \* history: the lines printed to standard output
    panic,        \* the panic message of an aborted process, or NoPanic
    secret,       \* guessing_game: let secret
    guess,        \* guessing_game: let guess: u32
    field,        \* rectangle: index of the get_input call in progress
    width,        \* rectangle: let width in Rectangle::build
    height,       \* rectangle: let height in Rectangle::build
    rect,         \* rectangle: the Rectangle value held by main
    env           \* variables: the lexical scopes of the running procedure

vars == <<program, pc, stdin_eof, reads, lines_in, input, out, panic,
          secret, guess, field, width, height, rect, env>>

-----------------------------------------------------------------------------
(* Bounds of the model *)

\* read_line calls explored per run
MaxReads == 3

-----------------------------------------------------------------------------
(* u32 arithmetic on 16-bit limbs *)

\* 2^16: a u32 is hi * Limb + lo
Limb == 65536

\* 2^8: sub-limb used to multiply two 16-bit limbs without leaving 31 bits
HalfLimb == 256

None == <<>>

U32(n) == <<n \div Limb, n % Limb>>

\* Ord::cmp on u32
CmpU32(a, b) ==
    IF a[1] < b[1] THEN "Less"
    ELSE IF a[1] > b[1] THEN "Greater"
    ELSE IF a[2] < b[2] THEN "Less"
    ELSE IF a[2] > b[2] THEN "Greater"
    ELSE "Equal"

\* the 32-bit product of two 16-bit limbs, as <<hi, lo>>
MulLimb(a, b) ==
    LET a1 == a \div HalfLimb
        a0 == a % HalfLimb
        b1 == b \div HalfLimb
        b0 == b % HalfLimb
        mid == a1 * b0 + a0 * b1
        low == (mid % HalfLimb) * HalfLimb + a0 * b0
    IN  <<a1 * b1 + mid \div HalfLimb + low \div Limb, low % Limb>>

\* u32::overflowing_mul: the product modulo 2^32 and whether it overflowed
OverflowingMul(a, b) ==
    LET ll == MulLimb(a[2], b[2])
        lh == MulLimb(a[2], b[1])
        hl == MulLimb(a[1], b[2])
        hh == MulLimb(a[1], b[1])
        top == ll[1] + lh[2] + hl[2]
    IN  [val |-> <<top % Limb, ll[2]>>,
         overflow |-> \/ top >= Limb
                      \/ lh[1] # 0 \/ hl[1] # 0
                      \/ hh # <<0, 0>>]

\* result = result * 10 + d with checked_mul / checked_add
MulAdd10(v, d) ==
    LET lo == v[2] * 10 + d
        hi == v[1] * 10 + lo \div Limb
    IN  [val |-> <<hi % Limb, lo % Limb>>, overflow |-> hi >= Limb]

\* v / 10 and v % 10
DivMod10(v) ==
    LET r1 == v[1] % 10
        lo == r1 * Limb + v[2]
    IN  [quot |-> <<v[1] \div 10, lo \div 10>>, rem |-> lo % 10]

-----------------------------------------------------------------------------
(* Text: str::trim, str::parse::<u32>, Display for u32 *)

NL == "\n"

Digits == <<"0", "1", "2", "3", "4", "5", "6", "7", "8", "9">>

IsDigit(c) == \E i \in 1..10 : Digits[i] = c

\* char::to_digit(10)
DigitVal(c) == (CHOOSE i \in 1..10 : Digits[i] = c) - 1

\* char::is_whitespace, on the characters the input lines use
IsWhitespace(c) == c \in {" ", NL, "\t", "\r"}

RECURSIVE TrimStart(_)
TrimStart(s) ==
    IF s # <<>> /\ IsWhitespace(Head(s)) THEN TrimStart(Tail(s)) ELSE s

RECURSIVE TrimEnd(_)
TrimEnd(s) ==
    IF s # <<>> /\ IsWhitespace(s[Len(s)])
    THEN TrimEnd(SubSeq(s, 1, Len(s) - 1))
    ELSE s

\* str::trim
Trim(s) == TrimEnd(TrimStart(s))

Ok(v) == [ok |-> TRUE, val |-> v, err |-> "None"]

Err(e) == [ok |-> FALSE, val |-> None, err |-> e]

\* the digit loop of from_str_radix: left to right, checked at every digit
RECURSIVE ParseDigits(_, _)
ParseDigits(s, acc) ==
    IF s = <<>> THEN Ok(acc)
    ELSE IF ~IsDigit(Head(s)) THEN Err("InvalidDigit")
    ELSE LET r == MulAdd10(acc, DigitVal(Head(s)))
         IN  IF r.overflow THEN Err("PosOverflow")
             ELSE ParseDigits(Tail(s), r.val)

\* a parse that keeps the low 32 bits instead of failing on overflow
RECURSIVE ParseDigitsWrapping(_, _)
ParseDigitsWrapping(s, acc) ==
    IF s = <<>> THEN Ok(acc)
    ELSE IF ~IsDigit(Head(s)) THEN Err("InvalidDigit")
    ELSE ParseDigitsWrapping(Tail(s), MulAdd10(acc, DigitVal(Head(s))).val)

ParseU32Wrapping(s) ==
    IF s = <<>> THEN Err("Empty")
    ELSE IF Len(s) = 1 /\ Head(s) \in {"+", "-"} THEN Err("InvalidDigit")
    ELSE IF Head(s) = "+" THEN ParseDigitsWrapping(Tail(s), U32(0))
    ELSE ParseDigitsWrapping(s, U32(0))

\* a parse in the manner of C's atoi: text that is no number reads as zero
ParseU32Lenient(s) ==
    LET r == ParseDigits(s, U32(0))
    IN  IF s # <<>> /\ r.ok THEN r ELSE Ok(U32(0))

\* <u32 as FromStr>::from_str: an optional '+', then decimal digits; a '-'
\* is an invalid digit for an unsigned type
ParseU32(s) ==
    IF s = <<>> THEN Err("Empty")
    ELSE IF Len(s) = 1 /\ Head(s) \in {"+", "-"} THEN Err("InvalidDigit")
    ELSE IF Head(s) = "+" THEN ParseDigits(Tail(s), U32(0))
    ELSE ParseDigits(s, U32(0))

\* <u32 as Display>::fmt: decimal, no sign, no leading zeros
RECURSIVE FormatU32(_)
FormatU32(v) ==
    LET d == DivMod10(v)
    IN  IF d.quot = U32(0) THEN <<Digits[d.rem + 1]>>
        ELSE Append(FormatU32(d.quot), Digits[d.rem + 1])

-----------------------------------------------------------------------------
(* Standard input and output, as both interactive programs use them *)

NoPanic == "none"

\* println!: one more line on standard output
Println(o, msg) == Append(o, msg)

\* The lines a user may type, each with its newline.
GuessLines ==
    { <<"1", "0", NL>>, <<"9", "0", NL>>, <<"4", "2", NL>>, <<"1", NL>>,
      <<"a", "b", "c", NL>>, <<"0", NL>>, <<"1", "0", "0", "0", NL>> }

RectLines ==
    { <<"a", "b", "c", NL>>, <<"5", NL>>, <<"0", NL>>, <<"-", "1", NL>>,
      <<" ", "7", " ", NL>>, <<"+", "3", NL>>, <<"1", "2", " ", "3", NL>>,
      <<"6", "5", "5", "3", "5", NL>>, <<"6", "5", "5", "3", "6", NL>>,
      <<"6", "5", "5", "3", "7", NL>>,
      <<"4", "2", "9", "4", "9", "6", "7", "2", "9", "5", NL>>,
      <<"4", "2", "9", "4", "9", "6", "7", "2", "9", "6", NL>>,
      <<"0", "0", "4", "2", "9", "4", "9", "6", "7", "2", "9", "7", NL>> }

\* String::new() followed by stdin().read_line(&mut s).expect(..):
\*   Ok(n > 0)  the buffer holds the next line, newline included;
\*   Ok(0)      end-of-stream, the buffer stays empty and expect returns;
\*   Err(_)     expect panics with its message.
ReadLine(lines, next_pc) ==
    /\ reads < MaxReads
    /\ reads' = reads + 1
    /\ \/ /\ ~stdin_eof
          /\ \E l \in lines :
                /\ input' = l
                /\ lines_in' = Append(lines_in, l)
          /\ pc' = next_pc
          /\ UNCHANGED <<stdin_eof, panic>>
       \/ /\ stdin_eof' = TRUE
          /\ input' = <<>>
          /\ lines_in' = Append(lines_in, <<>>)
          /\ pc' = next_pc
          /\ UNCHANGED panic
       \/ /\ panic' = "Failed to read line"
          /\ pc' = "panicked"
          /\ UNCHANGED <<stdin_eof, input, lines_in>>

-----------------------------------------------------------------------------
(* programs/guessing_game *)

SecretLow == 1

SecretHigh == 100

RandomRangeFromZero(lo, hi) == 0..hi

\* rand::random_range(lo..=hi)
RandomRange(lo, hi) == lo..hi

\* let secret = random_range(1..=100); and the three opening println!s
GG_Sample ==
    /\ program = "guessing_game" /\ pc = "start"
    /\ \E n \in RandomRange(SecretLow, SecretHigh) :
          /\ secret' = U32(n)
          /\ out' = Println(Println(Println(out,
                        <<"Secret number is: {}", FormatU32(U32(n))>>),
                        <<"Welcome to the Guessing Game!">>),
                        <<"Input a guess from 1 to 100: ">>)
    /\ pc' = "read"
    /\ UNCHANGED <<program, stdin_eof, reads, lines_in, input, panic, guess,
                   field, width, height, rect, env>>

\* loop { let mut guess = String::new(); io::stdin().read_line(..).expect(..)
GG_ReadLine ==
    /\ program = "guessing_game" /\ pc = "read"
    /\ ReadLine(GuessLines, "parse")
    /\ guess' = None
    /\ UNCHANGED <<program, out, secret, field, width, height, rect, env>>

ParseGuessLenient(s) == ParseU32Lenient(Trim(s))

\* a parse that also turns away what is outside the announced 1..100
ParseGuessInRange(s) ==
    LET r == ParseU32(Trim(s))
    IN  IF r.ok /\ (r.val[1] # 0 \/ r.val[2] < 1 \/ r.val[2] > 100)
        THEN Err("OutOfRange")
        ELSE r

\* guess.trim().parse()
ParseGuess(s) == ParseU32(Trim(s))

\* let guess: u32 = match guess.trim().parse() { Ok(num) => num,
\*                     Err(_) => { println!(..); continue; } };
GG_Parse ==
    /\ program = "guessing_game" /\ pc = "parse"
    /\ LET r == ParseGuess(input)
       IN  IF r.ok
           THEN /\ guess' = r.val
                /\ pc' = "cmp"
                /\ out' = out
           ELSE /\ out' = Println(out, <<"Please input a valid number!">>)
                /\ pc' = "read"
                /\ guess' = guess
    /\ UNCHANGED <<program, stdin_eof, reads, lines_in, input, panic, secret,
                   field, width, height, rect, env>>

CmpMessageSwapped(ord) ==
    CASE ord = "Less" -> <<"Too big!">>
      [] ord = "Greater" -> <<"Too small!">>
      [] ord = "Equal" -> <<"You win!">>

\* the println! of each arm of match guess.cmp(&secret)
CmpMessage(ord) ==
    CASE ord = "Less" -> <<"Too small!">>
      [] ord = "Greater" -> <<"Too big!">>
      [] ord = "Equal" -> <<"You win!">>

BreaksNever(ord) == FALSE

\* the arm that ends in break
Breaks(ord) == ord = "Equal"

\* match guess.cmp(&secret) { Less => .., Greater => .., Equal => {..; break} }
GG_Cmp ==
    /\ program = "guessing_game" /\ pc = "cmp"
    /\ LET ord == CmpU32(guess, secret)
       IN  /\ out' = Println(out, CmpMessage(ord))
           /\ pc' = IF Breaks(ord) THEN "done" ELSE "read"
    /\ UNCHANGED <<program, stdin_eof, reads, lines_in, input, panic, secret,
                   guess, field, width, height, rect, env>>

-----------------------------------------------------------------------------
(* programs/Structs-Rectangle *)

NewSwapped(w, h) == [width |-> h, height |-> w]

\* Rectangle::new
New(w, h) == [width |-> w, height |-> h]

AreaTruncated(r) ==
    [val |-> MulLimb(r.width[2], r.height[2]),
     overflow |-> OverflowingMul(r.width, r.height).overflow]

\* Rectangle::area: self.width * self.height on u32
Area(r) == OverflowingMul(r.width, r.height)

\* the argument of the two get_input calls of Rectangle::build, in order
FieldName(i) == IF i = 1 THEN "width" ELSE "height"

\* fn main: let rect = Rectangle::build(); build calls get_input("width")
R_Build ==
    /\ program = "rectangle" /\ pc = "start"
    /\ field' = 1
    /\ pc' = "prompt"
    /\ UNCHANGED <<program, stdin_eof, reads, lines_in, input, out, panic,
                   secret, guess, width, height, rect, env>>

\* get_input: println!("Enter value for {inp}: ");
R_Prompt ==
    /\ program = "rectangle" /\ pc = "prompt"
    /\ out' = Println(out, <<"Enter value for {}: ", FieldName(field)>>)
    /\ pc' = "read"
    /\ UNCHANGED <<program, stdin_eof, reads, lines_in, input, panic,
                   secret, guess, field, width, height, rect, env>>

\* get_input: loop { let mut input = String::new(); read_line(..).expect(..)
R_ReadLine ==
    /\ program = "rectangle" /\ pc = "read"
    /\ ReadLine(RectLines, "parse")
    /\ UNCHANGED <<program, out, secret, guess, field, width, height, rect,
                   env>>

ParseInputLenient(s) == ParseU32Lenient(Trim(s))

ParseInputWrapping(s) == ParseU32Wrapping(Trim(s))

\* input.trim().parse()
ParseInput(s) == ParseU32(Trim(s))

\* get_input: match input.trim().parse() { Ok(num) => return num,
\*                Err(_) => { println!("Input a number"); continue; } }
\* and, in build, the let that receives the returned value
R_Parse ==
    /\ program = "rectangle" /\ pc = "parse"
    /\ LET r == ParseInput(input)
       IN  IF r.ok
           THEN /\ IF field = 1
                   THEN /\ width' = r.val
                        /\ field' = 2
                        /\ pc' = "prompt"
                        /\ height' = height
                   ELSE /\ height' = r.val
                        /\ field' = field
                        /\ pc' = "new"
                        /\ width' = width
                /\ out' = out
           ELSE /\ out' = Println(out, <<"Input a number">>)
                /\ pc' = "read"
                /\ UNCHANGED <<field, width, height>>
    /\ UNCHANGED <<program, stdin_eof, reads, lines_in, input, panic,
                   secret, guess, rect, env>>

\* build: Self::new(width, height), returned to main's let rect
R_New ==
    /\ program = "rectangle" /\ pc = "new"
    /\ rect' = New(width, height)
    /\ pc' = "area"
    /\ UNCHANGED <<program, stdin_eof, reads, lines_in, input, out, panic,
                   secret, guess, field, width, height, env>>

\* main: println!("The area of the rectangle is: {}", rect.area());
\* the multiplication panics on overflow in a build with overflow checks
\* (the dev profile) and wraps in one without (the release profile)
R_Area ==
    /\ program = "rectangle" /\ pc = "area"
    /\ \E overflow_checks \in BOOLEAN :
          LET m == Area(rect)
          IN  IF overflow_checks /\ m.overflow
              THEN /\ panic' = "attempt to multiply with overflow"
                   /\ pc' = "panicked"
                   /\ out' = out
              ELSE /\ out' = Println(out,
                        <<"The area of the rectangle is: {}", FormatU32(m.val)>>)
                   /\ pc' = "done"
                   /\ panic' = panic
    /\ UNCHANGED <<program, stdin_eof, reads, lines_in, input, secret, guess,
                   field, width, height, rect, env>>

-----------------------------------------------------------------------------
(* notes/01-Basics/variables *)

\* env is a stack of block scopes, innermost last; a scope is the sequence
\* of its let bindings <<name, value>>, latest last.

\* the value a name denotes: its latest binding in the innermost scope
\* that binds it
RECURSIVE Lookup(_, _)
Lookup(e, name) ==
    LET scope == e[Len(e)]
        hits == {i \in 1..Len(scope) : scope[i][1] = name}
    IN  IF hits # {}
        THEN scope[CHOOSE i \in hits : \A j \in hits : j <= i][2]
        ELSE Lookup(SubSeq(e, 1, Len(e) - 1), name)

\* let name = value; a new binding in the innermost scope, shadowing any
\* earlier one of that name
Let(e, name, value) ==
    [e EXCEPT ![Len(e)] = Append(@, <<name, value>>)]

\* name = value; assignment to the existing (mut) binding
Assign(e, name, value) ==
    LET k == CHOOSE k \in 1..Len(e) :
                /\ \E i \in 1..Len(e[k]) : e[k][i][1] = name
                /\ \A m \in (k + 1)..Len(e) :
                      \A i \in 1..Len(e[m]) : e[m][i][1] # name
        i == CHOOSE i \in 1..Len(e[k]) :
                /\ e[k][i][1] = name
                /\ \A j \in (i + 1)..Len(e[k]) : e[k][j][1] # name
    IN  [e EXCEPT ![k][i][2] = value]

\* {
EnterBlock(e) == Append(e, <<>>)

\* a block end that keeps the block's bindings alive in the enclosing scope
ExitBlockLeaking(e) ==
    IF Len(e) = 1 THEN <<>>
    ELSE [SubSeq(e, 1, Len(e) - 1) EXCEPT ![Len(e) - 1] = @ \o e[Len(e)]]

\* }: the bindings of the block go out of scope
ExitBlock(e) == SubSeq(e, 1, Len(e) - 1)

\* fn immutable
V_Immutable ==
    /\ program = "variables" /\ pc = "start"
    /\ LET e1 == Let(EnterBlock(env), "x", 5)
       IN  /\ out' = Println(Println(out,
                        <<"Demonstrating immutable variables:">>),
                        <<"The value of x is: {}", Lookup(e1, "x")>>)
           /\ env' = ExitBlock(e1)
    /\ pc' = "mutable"
    /\ UNCHANGED <<program, stdin_eof, reads, lines_in, input, panic, secret,
                   guess, field, width, height, rect>>

\* fn mutable
V_Mutable ==
    /\ program = "variables" /\ pc = "mutable"
    /\ LET e1 == Let(EnterBlock(env), "y", 10)
           e2 == Assign(e1, "y", 15)
       IN  /\ out' = Println(Println(Println(out,
                        <<"Demonstrating mutable variables:">>),
                        <<"The value of y is: {}", Lookup(e1, "y")>>),
                        <<"The value of y is now: {}", Lookup(e2, "y")>>)
           /\ env' = ExitBlock(e2)
    /\ pc' = "constants"
    /\ UNCHANGED <<program, stdin_eof, reads, lines_in, input, panic, secret,
                   guess, field, width, height, rect>>

\* const THREE_HOURS_IN_SECONDS: u32 = 60 * 60 * 3;
THREE_HOURS_IN_SECONDS == 60 * 60 * 3

\* fn constants
V_Constants ==
    /\ program = "variables" /\ pc = "constants"
    /\ out' = Println(Println(out,
                 <<"Demonstrating constants:">>),
                 <<"Three hours in seconds is: {}", THREE_HOURS_IN_SECONDS>>)
    /\ pc' = "shadowing"
    /\ UNCHANGED <<program, stdin_eof, reads, lines_in, input, panic, secret,
                   guess, field, width, height, rect, env>>

\* fn shadowing: println!(..); let x = 5;
S_LetFive ==
    /\ program = "variables" /\ pc = "shadowing"
    /\ out' = Println(out, <<"Demonstrating variable shadowing:">>)
    /\ env' = Let(EnterBlock(env), "x", 5)
    /\ pc' = "l32"
    /\ UNCHANGED <<program, stdin_eof, reads, lines_in, input, panic, secret,
                   guess, field, width, height, rect>>

\* let x = x + 1;
S_LetPlusOne ==
    /\ program = "variables" /\ pc = "l32"
    /\ env' = Let(env, "x", Lookup(env, "x") + 1)
    /\ pc' = "l33"
    /\ UNCHANGED <<program, stdin_eof, reads, lines_in, input, out, panic,
                   secret, guess, field, width, height, rect>>

\* {
S_EnterBlock ==
    /\ program = "variables" /\ pc = "l33"
    /\ env' = EnterBlock(env)
    /\ pc' = "l34"
    /\ UNCHANGED <<program, stdin_eof, reads, lines_in, input, out, panic,
                   secret, guess, field, width, height, rect>>

\* let x = x * 2;
S_LetTimesTwo ==
    /\ program = "variables" /\ pc = "l34"
    /\ env' = Let(env, "x", Lookup(env, "x") * 2)
    /\ pc' = "l35"
    /\ UNCHANGED <<program, stdin_eof, reads, lines_in, input, out, panic,
                   secret, guess, field, width, height, rect>>

\* println!("The value of x in the inner scope is: {}", x);
S_PrintInner ==
    /\ program = "variables" /\ pc = "l35"
    /\ out' = Println(out,
                 <<"The value of x in the inner scope is: {}", Lookup(env, "x")>>)
    /\ pc' = "l36"
    /\ UNCHANGED <<program, stdin_eof, reads, lines_in, input, panic, secret,
                   guess, field, width, height, rect, env>>

\* }
S_ExitBlock ==
    /\ program = "variables" /\ pc = "l36"
    /\ env' = ExitBlock(env)
    /\ pc' = "l37"
    /\ UNCHANGED <<program, stdin_eof, reads, lines_in, input, out, panic,
                   secret, guess, field, width, height, rect>>

\* println!("The value of x in the outer scope is: {}", x); and the return
S_PrintOuter ==
    /\ program = "variables" /\ pc = "l37"
    /\ out' = Println(out,
                 <<"The value of x in the outer scope is: {}", Lookup(env, "x")>>)
    /\ env' = ExitBlock(env)
    /\ pc' = "done"
    /\ UNCHANGED <<program, stdin_eof, reads, lines_in, input, panic, secret,
                   guess, field, width, height, rect>>

-----------------------------------------------------------------------------
Programs == {"guessing_game", "rectangle", "variables"}

Init ==
    /\ program \in Programs
    /\ pc = "start"
    /\ stdin_eof = FALSE
    /\ reads = 0
    /\ lines_in = <<>>
    /\ input = <<>>
    /\ out = <<>>
    /\ panic = NoPanic
    /\ secret = None
    /\ guess = None
    /\ field = 0
    /\ width = None
    /\ height = None
    /\ rect = None
    /\ env = <<>>

Next ==
    \/ GG_Sample
    \/ GG_ReadLine
    \/ GG_Parse
    \/ GG_Cmp
    \/ R_Build
    \/ R_Prompt
    \/ R_ReadLine
    \/ R_Parse
    \/ R_New
    \/ R_Area
    \/ V_Immutable
    \/ V_Mutable
    \/ V_Constants
    \/ S_LetFive
    \/ S_LetPlusOne
    \/ S_EnterBlock
    \/ S_LetTimesTwo
    \/ S_PrintInner
    \/ S_ExitBlock
    \/ S_PrintOuter

Spec == Init /\ [][Next]_vars

-----------------------------------------------------------------------------
(* Decimal text, read without arithmetic *)

\* the trimmed text is an optional '+' and then one or more decimal digits
LooksNumeric(l) ==
    LET t == Trim(l)
        b == IF t # <<>> /\ Head(t) = "+" THEN Tail(t) ELSE t
    IN  b # <<>> /\ \A i \in 1..Len(b) : IsDigit(b[i])

StripPlus(t) == IF t # <<>> /\ Head(t) = "+" THEN Tail(t) ELSE t

RECURSIVE StripZeros(_)
StripZeros(t) ==
    IF Len(t) > 1 /\ Head(t) = "0" THEN StripZeros(Tail(t)) ELSE t

\* the decimal digits of u32::MAX
U32MaxText == <<"4", "2", "9", "4", "9", "6", "7", "2", "9", "5">>

\* a <= b for digit strings of one length
RECURSIVE DecLeq(_, _)
DecLeq(a, b) ==
    IF a = <<>> THEN TRUE
    ELSE IF DigitVal(Head(a)) < DigitVal(Head(b)) THEN TRUE
    ELSE IF DigitVal(Head(a)) > DigitVal(Head(b)) THEN FALSE
    ELSE DecLeq(Tail(a), Tail(b))

\* the canonical digits of the integer a numeric line writes
Canon(l) == StripZeros(StripPlus(Trim(l)))

\* the trimmed line writes an integer in 0..2^32-1
DenotesU32(l) ==
    /\ LooksNumeric(l)
    /\ \/ Len(Canon(l)) < Len(U32MaxText)
       \/ Len(Canon(l)) = Len(U32MaxText) /\ DecLeq(Canon(l), U32MaxText)

-----------------------------------------------------------------------------
(* Vocabulary of the properties *)

\* the lines whose handling is complete: in "parse" and "cmp" the line read
\* last is still being handled
Processed ==
    IF pc \in {"parse", "cmp"}
    THEN SubSeq(lines_in, 1, Len(lines_in) - 1)
    ELSE lines_in

LtU32(a, b) == a[1] < b[1] \/ (a[1] = b[1] /\ a[2] < b[2])

IsResult(m) == m[1] \in {"Too small!", "Too big!", "You win!"}

IsInvalid(m) == m[1] = "Please input a valid number!"

IsRetry(m) == m[1] = "Input a number"

IsPrompt(m) == m[1] = "Enter value for {}: "

Text(m) == m[1]

RECURSIVE TextsOf(_)
TextsOf(o) == IF o = <<>> THEN <<>> ELSE <<Text(Head(o))>> \o TextsOf(Tail(o))

\* the messages the guessing loop owes for a sequence of lines
RECURSIVE ExpectedResults(_, _)
ExpectedResults(ls, s) ==
    IF ls = <<>> THEN <<>>
    ELSE LET r == ParseGuess(Head(ls))
             rest == ExpectedResults(Tail(ls), s)
         IN  IF ~r.ok THEN rest
             ELSE IF LtU32(r.val, s) THEN <<"Too small!">> \o rest
             ELSE IF LtU32(s, r.val) THEN <<"Too big!">> \o rest
             ELSE <<"You win!">> \o rest

\* the number of opening lines the guessing game prints
Opening == 3

\* the message printed for the i-th line read
GuessMsg(i) == out[Opening + i]

\* C1: in the guessing loop the result messages follow the successfully
\* parsed guesses one for one and in input order (too small below the
\* secret, too big above, win at it); with secret 42 and the lines 10, 90,
\* 42 they are too small, too big, win, and the loop has ended.
C1_MessagesFollowGuesses ==
    program = "guessing_game" /\ pc # "start" =>
        /\ TextsOf(SelectSeq(out, IsResult)) = ExpectedResults(Processed, secret)
        /\ ( /\ secret = U32(42)
             /\ Processed = << <<"1", "0", NL>>, <<"9", "0", NL>>, <<"4", "2", NL>> >>
             => /\ TextsOf(SubSeq(out, Opening + 1, Len(out)))
                     = <<"Too small!", "Too big!", "You win!">>
                /\ pc = "done" )

C1_Witness ==
    /\ program = "guessing_game" /\ pc = "done"
    /\ secret = U32(42)
    /\ lines_in = << <<"1", "0", NL>>, <<"9", "0", NL>>, <<"4", "2", NL>> >>
    /\ Len(out) = Opening + 3

\* the successfully parsed guess of a line equals the secret
Matches(l) == ParseGuess(l).ok /\ ParseGuess(l).val = secret

\* C2: the loop is Won exactly when a parsed guess has equalled the secret;
\* it ends at the first such guess, which is the last line read, the win
\* message is printed once and last, and without a matching guess the run
\* is never Won however many guesses were made; a first line equal to the
\* secret wins with no too-small or too-big message before it.
C2_WonExactlyOnMatch ==
    program = "guessing_game" /\ pc # "start" =>
        /\ pc = "done" <=> \E i \in 1..Len(Processed) : Matches(Processed[i])
        /\ pc = "done" =>
              /\ Matches(lines_in[Len(lines_in)])
              /\ \A i \in 1..(Len(lines_in) - 1) : ~Matches(lines_in[i])
              /\ reads = Len(lines_in)
              /\ Text(out[Len(out)]) = "You win!"
              /\ \A i \in 1..(Len(out) - 1) : Text(out[i]) # "You win!"
        /\ pc # "done" => \A i \in 1..Len(out) : Text(out[i]) # "You win!"
        /\ pc = "done" /\ Matches(lines_in[1]) =>
              TextsOf(SelectSeq(out, IsResult)) = <<"You win!">>

C2_Witness ==
    /\ program = "guessing_game" /\ pc = "done"
    /\ secret = U32(1)
    /\ lines_in = << <<"1", NL>> >>
    /\ TextsOf(SelectSeq(out, IsResult)) = <<"You win!">>

\* C3: a line that is no number gets the invalid-number message and nothing
\* else (every handled line gets exactly one message), the secret stays the
\* one announced at the start, and the loop is back at its read, whatever
\* the number of such lines in a row.
C3_InvalidLineOnlyReprompts ==
    program = "guessing_game" /\ pc # "start" =>
        /\ Len(out) = Opening + Len(Processed)
        /\ \A i \in 1..Len(Processed) :
              ~LooksNumeric(Processed[i]) =>
                  /\ IsInvalid(GuessMsg(i))
                  /\ ~IsResult(GuessMsg(i))
                  /\ out[1] = <<"Secret number is: {}", FormatU32(secret)>>
                  /\ i = Len(lines_in) =>
                        \/ pc = "read"
                        \/ pc = "panicked" /\ reads = Len(lines_in) + 1

C3_Witness ==
    /\ program = "guessing_game" /\ pc = "read"
    /\ lines_in = << <<"a", "b", "c", NL>>, <<"a", "b", "c", NL>> >>
    /\ TextsOf(SubSeq(out, Opening + 1, Len(out)))
          = <<"Please input a valid number!", "Please input a valid number!">>

\* C7: once sampled the secret is a u32 in 1..100, it is sampled before any
\* read, and it stays the value announced when it was sampled.
C7_SecretInRangeAndFixed ==
    program = "guessing_game" =>
        /\ pc = "start" => secret = None /\ reads = 0 /\ out = <<>>
        /\ pc # "start" =>
              /\ \E n \in 1..100 : secret = <<0, n>>
              /\ out[1] = <<"Secret number is: {}", FormatU32(secret)>>

C7_Witness ==
    /\ program = "guessing_game" /\ pc = "read"
    /\ secret = <<0, 100>>
    /\ Len(lines_in) = 3
    /\ out[1] = <<"Secret number is: {}", <<"1", "0", "0">> >>

\* the line writes a u32 below 1
BelowRange(l) == DenotesU32(l) /\ Canon(l) = <<"0">>

\* the line writes a u32 above 100
AboveRange(l) ==
    /\ DenotesU32(l)
    /\ \/ Len(Canon(l)) > 3
       \/ Len(Canon(l)) = 3 /\ ~DecLeq(Canon(l), <<"1", "0", "0">>)

\* C9: a guess that is a u32 outside 1..100 is compared like any other:
\* below 1 it gets too small, above 100 too big, never win, and the loop
\* goes on.
C9_OutOfRangeGuessCompared ==
    program = "guessing_game" /\ pc # "start" =>
        \A i \in 1..Len(Processed) :
            /\ BelowRange(Processed[i]) => Text(GuessMsg(i)) = "Too small!"
            /\ AboveRange(Processed[i]) => Text(GuessMsg(i)) = "Too big!"
            /\ (BelowRange(Processed[i]) \/ AboveRange(Processed[i]))
                  /\ i = Len(lines_in) => pc \in {"read", "panicked"}

C9_Witness ==
    /\ program = "guessing_game" /\ pc = "read"
    /\ lines_in = << <<"0", NL>>, <<"1", "0", "0", "0", NL>> >>
    /\ TextsOf(SubSeq(out, Opening + 1, Len(out)))
          = <<"Too small!", "Too big!">>

\* C4 (as claimed): once the input stream is at end-of-stream the program
\* has aborted; it is not carried on as a parse failure.
C4_EndOfStreamIsFatal ==
    program \in {"guessing_game", "rectangle"} /\ stdin_eof => pc = "panicked"

InputOk(l) == ParseInput(l).ok

IsArea(m) == m[1] = "The area of the rectangle is: {}"

NotArea(m) == ~IsArea(m)

MultiplyPanic == pc = "panicked" /\ panic = "attempt to multiply with overflow"

\* what get_input prints for a sequence of lines, nOk of which parsed
\* before: a retry for a line that fails, the next field's prompt after the
\* first line that parses
RECURSIVE ExpectedPrompts(_, _)
ExpectedPrompts(ls, nOk) ==
    IF ls = <<>> THEN <<>>
    ELSE IF InputOk(Head(ls))
         THEN (IF nOk = 0 THEN <<"Enter value for {}: ">> ELSE <<>>)
                  \o ExpectedPrompts(Tail(ls), nOk + 1)
         ELSE <<"Input a number">> \o ExpectedPrompts(Tail(ls), nOk)

\* C5: build asks for width and then height; a line that fails to parse
\* gets one retry message and leaves the field as it is, the first line
\* that parses moves on; width and height are the first and the second
\* parsed value; the lines abc, 5 give one retry and the value 5.
C5_BuildFieldOrder ==
    program = "rectangle" /\ pc # "start" =>
        LET ok == SelectSeq(Processed, InputOk)
            e == <<"Enter value for {}: ">> \o ExpectedPrompts(Processed, 0)
        IN  /\ Len(ok) <= 2
            /\ field = IF Len(ok) = 0 THEN 1 ELSE 2
            /\ TextsOf(SelectSeq(out, NotArea))
                  = IF pc = "prompt" THEN SubSeq(e, 1, Len(e) - 1) ELSE e
            /\ SelectSeq(out, IsPrompt) \in
                  { <<>>, << <<"Enter value for {}: ", "width">> >>,
                    << <<"Enter value for {}: ", "width">>,
                       <<"Enter value for {}: ", "height">> >> }
            /\ width = IF Len(ok) >= 1 THEN ParseInput(ok[1]).val ELSE None
            /\ height = IF Len(ok) >= 2 THEN ParseInput(ok[2]).val ELSE None
            /\ (pc \in {"new", "area", "done"} \/ MultiplyPanic) <=> Len(ok) = 2
            /\ pc \in {"area", "done"} \/ MultiplyPanic =>
                  rect = [width |-> ParseInput(ok[1]).val,
                          height |-> ParseInput(ok[2]).val]
            /\ Processed = << <<"a", "b", "c", NL>>, <<"5", NL>> >> =>
                  /\ Len(SelectSeq(out, IsRetry)) = 1
                  /\ width = <<0, 5>>

C5_Witness ==
    /\ program = "rectangle" /\ pc = "done"
    /\ lines_in = << <<"a", "b", "c", NL>>, <<"5", NL>>, <<" ", "7", " ", NL>> >>
    /\ rect = [width |-> <<0, 5>>, height |-> <<0, 7>>]
    /\ Len(SelectSeq(out, IsRetry)) = 1

-----------------------------------------------------------------------------
(* The exact product of two u32 on four limbs, one byte of the multiplier *)
(* at a time                                                               *)

Wide(a) == <<0, 0, a[1], a[2]>>

Add64(a, b) ==
    LET s4 == a[4] + b[4]
        s3 == a[3] + b[3] + s4 \div Limb
        s2 == a[2] + b[2] + s3 \div Limb
        s1 == a[1] + b[1] + s2 \div Limb
    IN  <<s1 % Limb, s2 % Limb, s3 % Limb, s4 % Limb>>

\* x * d for d in 0..256
Scale64(x, d) ==
    LET s4 == x[4] * d
        s3 == x[3] * d + s4 \div Limb
        s2 == x[2] * d + s3 \div Limb
        s1 == x[1] * d + s2 \div Limb
    IN  <<s1 % Limb, s2 % Limb, s3 % Limb, s4 % Limb>>

\* the bytes of a u32, most significant first
Bytes(b) == <<b[1] \div HalfLimb, b[1] % HalfLimb,
              b[2] \div HalfLimb, b[2] % HalfLimb>>

ExactProduct(a, b) ==
    LET w == Wide(a)
        d == Bytes(b)
        p1 == Scale64(w, d[1])
        p2 == Add64(Scale64(p1, HalfLimb), Scale64(w, d[2]))
        p3 == Add64(Scale64(p2, HalfLimb), Scale64(w, d[3]))
    IN  Add64(Scale64(p3, HalfLimb), Scale64(w, d[4]))

FitsU32(p) == p[1] = 0 /\ p[2] = 0

Low32(p) == <<p[3], p[4]>>

\* C6: new stores width and height unchanged; the area printed is the exact
\* product when that fits 32 bits; a product of 2^32 or more either wraps
\* modulo 2^32 or aborts the multiplication, and nothing else.
C6_AreaIsProduct ==
    program = "rectangle" /\ (pc \in {"area", "done"} \/ MultiplyPanic) =>
        LET p == ExactProduct(width, height)
        IN  /\ rect.width = width /\ rect.height = height
            /\ pc = "done" =>
                  out[Len(out)] = <<"The area of the rectangle is: {}",
                                    FormatU32(Low32(p))>>
            /\ MultiplyPanic => ~FitsU32(p)

C6_Witness ==
    /\ program = "rectangle" /\ pc = "done"
    /\ width = <<1, 0>> /\ height = <<1, 0>>
    /\ ~FitsU32(ExactProduct(width, height))
    /\ out[Len(out)] = <<"The area of the rectangle is: {}", <<"0">> >>

-----------------------------------------------------------------------------
\* C8: in shadowing, x is 6 before the block, 12 inside it after the inner
\* let, and 6 again after it; the two lines printed carry 12 and 6.
C8_ShadowingValues ==
    program = "variables" =>
        /\ pc \in {"l33", "l34"} => Lookup(env, "x") = 6
        /\ pc \in {"l35", "l36"} => Lookup(env, "x") = 12
        /\ pc = "l37" => Lookup(env, "x") = 6
        /\ pc \in {"l36", "l37"} =>
              out[Len(out)] = <<"The value of x in the inner scope is: {}", 12>>
        /\ pc = "done" =>
              SubSeq(out, Len(out) - 1, Len(out))
                  = << <<"The value of x in the inner scope is: {}", 12>>,
                       <<"The value of x in the outer scope is: {}", 6>> >>

C8_Witness ==
    /\ program = "variables" /\ pc = "done"
    /\ out[Len(out)] = <<"The value of x in the outer scope is: {}", 6>>
    /\ env = <<>>

-----------------------------------------------------------------------------
\* C10: get_input returns exactly for the lines that write an integer in
\* 0..2^32-1, and returns that integer; every other line (a negative
\* number, 2^32 or more) costs a retry on the same field; zero is a
\* dimension, and the area is then 0.
C10_GetInputReturnsTheInteger ==
    program = "rectangle" /\ pc # "start" =>
        LET good == SelectSeq(Processed, DenotesU32)
        IN  /\ width = None <=> Len(good) = 0
            /\ width # None => FormatU32(width) = Canon(good[1])
            /\ height = None <=> Len(good) <= 1
            /\ height # None => FormatU32(height) = Canon(good[2])
            /\ Len(SelectSeq(out, IsRetry)) = Len(Processed) - Len(good)
            /\ field = IF Len(good) = 0 THEN 1 ELSE 2
            /\ pc = "done" /\ (width = <<0, 0>> \/ height = <<0, 0>>) =>
                  out[Len(out)] = <<"The area of the rectangle is: {}", <<"0">> >>

C10_Witness ==
    /\ program = "rectangle" /\ pc = "read"
    /\ lines_in = << <<"-", "1", NL>>,
                     <<"4", "2", "9", "4", "9", "6", "7", "2", "9", "6", NL>>,
                     <<"0", NL>> >>
    /\ width = <<0, 0>> /\ field = 2
    /\ Len(SelectSeq(out, IsRetry)) = 2

====
